---------------------------- MODULE Spec2Model ----------------------------
(***************************************************************************)
(* pg_etcd: bidirectional synchronisation between etcd and the PostgreSQL  *)
(* table "etcd".                                                           *)
(*                                                                         *)
(* The model holds the table (a set of rows under the (key, revision)      *)
(* primary key), the etcd store with its revision log, the forward path    *)
(* (Service.syncEtcdToPostgreSQL fed by EtcdClient.WatchWithRecovery), the *)
(* reverse path (Service.syncPostgreSQLToEtcd) and the writers around the  *)
(* daemon: applications calling etcd_put / etcd_delete /                   *)
(* InsertPendingRecord and other clients of etcd.                          *)
(***************************************************************************)
EXTENDS Integers, Sequences, FiniteSets, TLC

(***************************************************************************)
(* Bounds of the model.                                                    *)
(***************************************************************************)
\* etcd revisions run from 1 (an empty cluster) to MaxRev.
MaxRev == 3
\* The same bound where only the forward path runs.
MaxFwdRev == 4
\* The application clock: at most MaxTs pending writes are made.
MaxTs == 2
\* At most MaxOutages times the database becomes unreachable.
MaxOutages == 1
\* At most MaxWatchFaults times the inner watch channel closes or errors.
MaxWatchFaults == 1
\* At most MaxRestarts times the daemon is started again.
MaxRestarts == 1
\* At most MaxCompactions compactions of the etcd history.
MaxCompactions == 1
\* A watch response carries at most MaxBatch events.
MaxBatch == 2
\* The part of a DSN after its scheme has at most MaxDsnLen characters.
MaxDsnLen == 4

(***************************************************************************)
(* Program constants.                                                      *)
(***************************************************************************)
InvalidRevision == -1
MaxRetries == 3
\* The capacity of the channel the two workers of Start report on.
ErrChanCap == 2

Keys == {"a", "b"}
\* Values written by applications through the table; the empty string is
\* a legal value.
AppValues == {"p", ""}
\* Values written to etcd by its other clients.
ExtValues == {"e"}
\* SQL NULL in the value column.
NULL == "NULL"

VARIABLES
    \* ---- PostgreSQL ----
    table,            \* rows of table etcd: [key, value, revision, ts, tombstone]
    now,              \* the database clock (CURRENT_TIMESTAMP / time.Now())
    dbDown,           \* the database is unreachable: every statement fails
    outages,          \* outages so far
    \* ---- etcd ----
    etcdKV,           \* key -> [present, value, mod]
    etcdRev,          \* the header revision
    etcdLog,          \* the event history: etcdLog[i] is the event of revision i + 1
    compactRev,       \* revisions below compactRev are compacted away
    compactions,      \* compactions so far
    etcdDown,         \* etcd is unreachable: every call of the daemon to it fails
    etcdOutages,      \* outages of etcd so far
    \* ---- Service.Start ----
    sPc,              \* "init" | "running" | "failed" | "canceled"
    \* ---- forward worker: Service.syncEtcdToPostgreSQL ----
    fPc,              \* "start" | "recv" | "event" | "failed" | "done"
    fBatch,           \* events of the watch response not yet processed
    fAttempt,         \* failed attempts of RetryWithBackoff for the head event
    latestRevision,   \* the worker's local watermark
    \* ---- EtcdClient.WatchWithRecovery goroutine ----
    wPc,              \* "off" | "subscribe" | "recv" | "send" | "done"
    startRevision,    \* the argument of WatchWithRecovery
    currentRevision,  \* the resumption cursor
    wNext,            \* first revision the inner watch has still to deliver
    wResp,            \* the response being forwarded on watchChan
    watchFaults,      \* faults of the inner watch so far
    \* ---- reverse worker: Service.syncPostgreSQLToEtcd ----
    rPc,              \* "idle" | "apply" | "stamp" | "done"
    rQueue,           \* pendingRecords not yet processed; the head is in process
    rAttempt,         \* failed attempts of RetryWithBackoff for the head record
    eAttempt,         \* failed attempts of RetryEtcdOperation in this attempt
    newRevision,      \* revision etcd returned for the head record
    \* ---- history (observation only) ----
    delivered,        \* revisions handed to the forward worker, in order
    fwdLog,           \* revisions the forward worker inserted, in order
    gaveUp,           \* revisions whose insertion failed on every retry
    restarted,        \* the inner watch has been restarted
    compactedAt,      \* start revision etcd last reported as compacted (0: none)
    syncedAt,         \* header revision of the range read of initialSync
    calls,            \* etcd calls the reverse worker made in this poll cycle
    restarts,         \* times the daemon was started again
    syncLog,          \* the records of each initialSync that returned nil
    \* ---- main ----
    cancelled,        \* the root context is cancelled (SIGINT/SIGTERM received)
    mPc,              \* "connect_pg" | "connect_etcd" | "start" | "exit0" | "exit1"
    mAttempt,         \* failed attempts of the connection in progress
    \* ---- one call of RetryWithBackoff, on its own ----
    bPc,              \* "idle" | "attempt" | "wait" | "done"
    attempt,          \* the loop variable
    opCalls,          \* calls of the operation so far
    opPlan,           \* opPlan[i]: the i-th call of the operation fails
    lastErr,          \* the call whose error is lastErr (0: none)
    bResult,          \* the value returned: [kind, cause]
    \* ---- the etcd DSN, from the command line to the first range read ----
    dsn,              \* the DSN: [scheme, rest], rest a string of characters
    dPc,              \* "idle" | "new" | "parsed" | "service" | "synced"
    cfg,              \* what parseEtcdDSN returned: [err, endpoints]
    svcPrefix,        \* Service.prefix
    readKeys,         \* the keys the range read of initialSync returned
    \* ---- Service.Start ----
    errChan           \* the values waiting in errChan, a channel of capacity 2

dbVars    == <<table, now, dbDown, outages>>
etcdVars  == <<etcdKV, etcdRev, etcdLog, compactRev, compactions, etcdDown,
               etcdOutages>>
fwdVars   == <<fPc, fBatch, fAttempt, latestRevision>>
watchVars == <<wPc, startRevision, currentRevision, wNext, wResp, watchFaults>>
revVars   == <<rPc, rQueue, rAttempt, eAttempt, newRevision>>
histVars  == <<delivered, fwdLog, gaveUp, restarted, compactedAt, syncedAt,
               calls, restarts, syncLog>>
mainVars  == <<cancelled, mPc, mAttempt>>
retryVars == <<bPc, attempt, opCalls, opPlan, lastErr, bResult>>
dsnVars   == <<dsn, dPc, cfg, svcPrefix, readKeys>>
vars == <<dbVars, etcdVars, sPc, fwdVars, watchVars, revVars, histVars, mainVars,
          retryVars, dsnVars, errChan>>

Max(a, b) == IF a >= b THEN a ELSE b

(***************************************************************************)
(* The table and its statements.                                           *)
(***************************************************************************)
Row(k, v, rev, ts, tomb) ==
    [key |-> k, value |-> v, revision |-> rev, ts |-> ts, tombstone |-> tomb]

\* The rows a statement's WHERE key = k AND revision = rev selects.
RowsAt(t, k, rev) == {r \in t : r.key = k /\ r.revision = rev}

\* PRIMARY KEY(key, revision): a row (k, rev) is already there.
PkConflict(t, k, rev) == RowsAt(t, k, rev) # {}

\* value text NOT NULL.
NotNullViolation(row) == row.value = NULL

\* A plain INSERT: [ok, table]. It fails, and changes nothing, on a NULL
\* value and on a primary-key collision.
InsertRow(t, row) ==
    IF NotNullViolation(row) \/ PkConflict(t, row.key, row.revision)
    THEN [ok |-> FALSE, table |-> t]
    ELSE [ok |-> TRUE, table |-> t \cup {row}]

\* An upsert that replaces the whole history of the key by the row.
UpsertReplaceKey(t, row) == {r \in t : r.key # row.key} \cup {row}

\* INSERT ... ON CONFLICT (key, revision) DO UPDATE SET ts, value, tombstone.
Upsert(t, row) == (t \ RowsAt(t, row.key, row.revision)) \cup {row}


\* An upsert whose conflict target is the key alone: the record replaces
\* every row of its key.
BulkInsertByKey(t, records) ==
    LET rows == {Row(r.key, IF r.tombstone THEN "" ELSE r.value, r.revision,
                     r.ts, r.tombstone) : r \in records}
    IN  {r \in t : \A x \in rows : x.key # r.key} \cup rows

\* An insert that adds every record as a new row.
BulkInsertAppend(t, records) ==
    t \cup {Row(r.key, IF r.tombstone THEN "" ELSE r.value, r.revision,
                r.ts, r.tombstone) : r \in records}

\* BulkInsert: one upsert per record, sent as one batch; a tombstone is
\* written with the empty string as its value.
BulkInsertTable(t, records) ==
    LET rows == {Row(r.key, IF r.tombstone THEN "" ELSE r.value, r.revision,
                     r.ts, r.tombstone) : r \in records}
    IN  {r \in t : \A x \in rows : ~(x.key = r.key /\ x.revision = r.revision)}
        \cup rows

\* A pending write without the ON CONFLICT clause and without the primary
\* key to stop it: the row is added next to whatever is there.
InsertPendingRecordPlain(t, k, v, tomb, ts) ==
    t \cup {Row(k, IF tomb THEN "" ELSE v, InvalidRevision, ts, tomb)}

\* A pending upsert that stores the value it is given, tombstone or not.
InsertPendingRecordRaw(t, k, v, tomb, ts) ==
    Upsert(t, Row(k, v, InvalidRevision, ts, tomb))

\* InsertPendingRecord: the upsert of the (key, -1) row.
InsertPendingRecordTable(t, k, v, tomb, ts) ==
    Upsert(t, Row(k, IF tomb THEN "" ELSE v, InvalidRevision, ts, tomb))

\* UpdateRevision: UPDATE etcd SET revision = rev WHERE key = k AND
\* revision = -1. [err, table] with err "none", "notfound" (no row matched:
\* "no pending record found") or "pk" (the statement failed on the primary
\* key and changed nothing).
UpdateRevisionResult(t, k, rev) ==
    LET target == RowsAt(t, k, InvalidRevision)
    IN  IF target = {}
        THEN [err |-> "notfound", table |-> t]
        ELSE IF PkConflict(t \ target, k, rev) \/ Cardinality(target) > 1
        THEN [err |-> "pk", table |-> t]
        ELSE [err |-> "none",
              table |-> (t \ target) \cup
                        {[r EXCEPT !.revision = rev] : r \in target}]

\* MAX(revision) over every row of the table, the pending ones included.
GetLatestRevisionAll(t) ==
    LET revs == {r.revision : r \in t}
    IN  IF revs = {} THEN 0 ELSE CHOOSE m \in revs : \A x \in revs : x <= m

\* GetLatestRevision: SELECT MAX(revision) FROM etcd WHERE revision > 0,
\* NULL read as 0.
GetLatestRevisionOf(t) ==
    LET revs == {r.revision : r \in {x \in t : x.revision > 0}}
    IN  IF revs = {} THEN 0 ELSE CHOOSE m \in revs : \A x \in revs : x <= m

\* ORDER BY ts ASC.
\* The rows as a sequence in descending ts order.
RECURSIVE SortByTsDesc(_)
SortByTsDesc(rows) ==
    IF rows = {} THEN <<>>
    ELSE LET first == CHOOSE r \in rows : \A x \in rows : r.ts >= x.ts
         IN  <<first>> \o SortByTsDesc(rows \ {first})

RECURSIVE SortByTs(_)
SortByTs(rows) ==
    IF rows = {} THEN <<>>
    ELSE LET first == CHOOSE r \in rows : \A x \in rows : r.ts <= x.ts
         IN  <<first>> \o SortByTs(rows \ {first})

\* A query without the WHERE clause: every row of the table, in ts order.
GetPendingRecordsAllRows(t) ==
    SortByTs({[r EXCEPT !.value = IF r.value = NULL THEN "" ELSE r.value] :
              r \in t})

\* GetPendingRecords: SELECT ... WHERE revision = -1 ORDER BY ts ASC, a NULL
\* value read as the empty string.
GetPendingRecordsOf(t) ==
    SortByTs({[r EXCEPT !.value = IF r.value = NULL THEN "" ELSE r.value] :
              r \in {x \in t : x.revision = InvalidRevision}})

\* etcd_get(p_key): ... WHERE key = p_key ORDER BY revision DESC LIMIT 1.
\* The result set: no row or one row.
etcd_get(t, k) ==
    LET rows == {r \in t : r.key = k}
    IN  {r \in rows : \A x \in rows : x.revision <= r.revision}

(***************************************************************************)
(* etcd.                                                                   *)
(***************************************************************************)
Absent == [present |-> FALSE, value |-> "", mod |-> 0]

PutEvent(k, v, rev) == [type |-> "PUT", key |-> k, value |-> v, rev |-> rev]
DeleteEvent(k, rev) == [type |-> "DELETE", key |-> k, value |-> "", rev |-> rev]

\* Client.Put: a new revision, one PUT event; the header carries it.
EtcdPutStore(k, v) ==
    /\ etcdRev' = etcdRev + 1
    /\ etcdKV' = [etcdKV EXCEPT ![k] =
                      [present |-> TRUE, value |-> v, mod |-> etcdRev + 1]]
    /\ etcdLog' = Append(etcdLog, PutEvent(k, v, etcdRev + 1))

\* Client.Delete: a new revision and a DELETE event when the key exists;
\* otherwise nothing changes and the header carries the current revision.
EtcdDeleteStore(k) ==
    IF etcdKV[k].present
    THEN /\ etcdRev' = etcdRev + 1
         /\ etcdKV' = [etcdKV EXCEPT ![k] = Absent]
         /\ etcdLog' = Append(etcdLog, DeleteEvent(k, etcdRev + 1))
    ELSE UNCHANGED <<etcdRev, etcdKV, etcdLog>>

\* The event of revision rev (revision 1 has none).
EventAt(rev) == etcdLog[rev - 1]

(***************************************************************************)
(* The etcd DSN: parseEtcdDSN and GetPrefix. A string is a sequence of     *)
(* characters; a DSN is its scheme and the characters after it.            *)
(***************************************************************************)
\* The characters of the DSNs tried: a letter, the colon, a digit, the comma
\* and the slash.
DsnChars == {"h", ":", "2", ",", "/"}
Digits == {"2", "3", "7", "9"}

\* The strings of at most n characters.
Strings(n) == UNION {[1..m -> DsnChars] : m \in 0..n}

\* The DSN "".
EmptyDsn == [scheme |-> "", rest |-> <<>>]

\* The DSNs tried: "", and etcd:// or http:// followed by a string.
Dsns ==
    {EmptyDsn} \cup
    {[scheme |-> sc, rest |-> r] :
         sc \in {"etcd://", "http://"}, r \in Strings(MaxDsnLen)}

\* strings.HasPrefix.
HasPrefix(str, p) ==
    Len(p) <= Len(str) /\ SubSeq(str, 1, Len(p)) = p

\* strings.Contains for one character.
Contains(str, c) == \E i \in 1..Len(str) : str[i] = c

\* strings.Index and strings.LastIndex for one character, counted from 1
\* (0: not found).
Index(str, c) ==
    IF Contains(str, c)
    THEN CHOOSE i \in 1..Len(str) :
             str[i] = c /\ \A j \in 1..(i - 1) : str[j] # c
    ELSE 0

LastIndex(str, c) ==
    IF Contains(str, c)
    THEN CHOOSE i \in 1..Len(str) :
             str[i] = c /\ \A j \in (i + 1)..Len(str) : str[j] # c
    ELSE 0

\* strings.Split for a one-character separator.
RECURSIVE Split(_, _)
Split(str, c) ==
    IF ~Contains(str, c) THEN <<str>>
    ELSE <<SubSeq(str, 1, Index(str, c) - 1)>>
             \o Split(SubSeq(str, Index(str, c) + 1, Len(str)), c)

\* url.Parse of scheme://rest: the host runs up to the first slash and the
\* path from it to the end; what follows the last colon of the host must be
\* digits, or the URL is refused ("invalid port").
UrlParse(rest) ==
    LET slash == Index(rest, "/")
        host == IF slash = 0 THEN rest ELSE SubSeq(rest, 1, slash - 1)
        path == IF slash = 0 THEN <<>> ELSE SubSeq(rest, slash, Len(rest))
        colon == LastIndex(host, ":")
    IN  [err |-> /\ colon # 0
                 /\ \E i \in (colon + 1)..Len(host) : host[i] \notin Digits,
         host |-> host,
         path |-> path]

\* ":2379", the default etcd port.
DefaultPort == <<":", "2", "3", "7", "9">>

\* parseEtcdDSN: [err, endpoints].
parseEtcdDSN(d) ==
    IF d = EmptyDsn THEN [err |-> "required", endpoints |-> <<>>]
    ELSE IF d.scheme # "etcd://" THEN [err |-> "scheme", endpoints |-> <<>>]
    ELSE LET u == UrlParse(d.rest)
             hosts == Split(u.host, ",")
         IN  IF u.err THEN [err |-> "parse", endpoints |-> <<>>]
             ELSE [err |-> "none",
                   endpoints |->
                       [i \in 1..Len(hosts) |->
                           IF Contains(hosts[i], ":") THEN hosts[i]
                           ELSE hosts[i] \o DefaultPort]]

\* GetPrefix: the path of the DSN, "/" when there is none.
GetPrefix(d) ==
    IF d = EmptyDsn \/ d.scheme # "etcd://" THEN <<"/">>
    ELSE LET u == UrlParse(d.rest)
         IN  IF u.err \/ u.path = <<>> THEN <<"/">> ELSE u.path

\* The keys etcd holds when the daemon starts.
StoredKeys == {<<"/", "h">>, <<"/", "2", "h">>, <<"h">>}

\* Client.Get(prefix, WithPrefix()): the keys of the range.
RangeKeys(prefix) == {k \in StoredKeys : HasPrefix(k, prefix)}

\* No DSN is under observation.
DsnIdle ==
    /\ dsn = EmptyDsn
    /\ dPc = "idle"
    /\ cfg = [err |-> "none", endpoints |-> <<>>]
    /\ svcPrefix = <<>>
    /\ readKeys = {}

\* No call of RetryWithBackoff is under observation.
RetryIdle ==
    /\ bPc = "idle"
    /\ attempt = 0
    /\ opCalls = 0
    /\ opPlan = [i \in 1..(MaxRetries + 1) |-> FALSE]
    /\ lastErr = 0
    /\ bResult = [kind |-> "none", cause |-> 0]

(***************************************************************************)
(* Initial state: an empty cluster at revision 1, an empty table, the      *)
(* daemon constructed and not yet started.                                 *)
(***************************************************************************)
DaemonInit ==
    /\ table = {}
    /\ now = 0
    /\ dbDown = FALSE
    /\ outages = 0
    /\ etcdKV = [k \in Keys |-> Absent]
    /\ etcdRev = 1
    /\ etcdLog = <<>>
    /\ compactRev = 0
    /\ compactions = 0
    /\ etcdDown = FALSE
    /\ etcdOutages = 0
    /\ sPc = "init"
    /\ fPc = "start"
    /\ fBatch = <<>>
    /\ fAttempt = 0
    /\ latestRevision = 0
    /\ wPc = "off"
    /\ startRevision = 0
    /\ currentRevision = 0
    /\ wNext = 0
    /\ wResp = <<>>
    /\ watchFaults = 0
    /\ rPc = "idle"
    /\ rQueue = <<>>
    /\ rAttempt = 0
    /\ eAttempt = 0
    /\ newRevision = 0
    /\ delivered = <<>>
    /\ fwdLog = <<>>
    /\ gaveUp = {}
    /\ restarted = FALSE
    /\ compactedAt = 0
    /\ syncedAt = 0
    /\ calls = <<>>
    /\ restarts = 0
    /\ syncLog = <<>>
    /\ errChan = <<>>

\* main has connected both endpoints and calls Start.
MainConnected ==
    /\ cancelled = FALSE
    /\ mPc = "start"
    /\ mAttempt = 0

Init ==
    /\ DaemonInit
    /\ MainConnected
    /\ RetryIdle
    /\ DsnIdle

(***************************************************************************)
(* Writers around the daemon.                                              *)
(***************************************************************************)
\* An application calls etcd_put(k, v): a plain INSERT of (k, v, -1, false).
etcd_put(k, v) ==
    /\ ~dbDown
    /\ now < MaxTs
    /\ LET res == InsertRow(table, Row(k, v, InvalidRevision, now + 1, FALSE))
       IN  /\ table' = res.table
           /\ now' = IF res.ok THEN now + 1 ELSE now
    /\ UNCHANGED <<dbDown, outages, etcdVars, sPc, fwdVars, watchVars, revVars,
                   histVars, mainVars, retryVars, dsnVars, errChan>>

\* An application calls etcd_delete(k): a plain INSERT of (k, NULL, -1, true).
etcd_delete(k) ==
    /\ ~dbDown
    /\ now < MaxTs
    /\ LET res == InsertRow(table, Row(k, NULL, InvalidRevision, now + 1, TRUE))
       IN  /\ table' = res.table
           /\ now' = IF res.ok THEN now + 1 ELSE now
    /\ UNCHANGED <<dbDown, outages, etcdVars, sPc, fwdVars, watchVars, revVars,
                   histVars, mainVars, retryVars, dsnVars, errChan>>

\* An application calls InsertPendingRecord(k, v, tombstone).
InsertPendingRecord(k, v, tomb) ==
    /\ ~dbDown
    /\ now < MaxTs
    /\ table' = InsertPendingRecordTable(table, k, v, tomb, now + 1)
    /\ now' = now + 1
    /\ UNCHANGED <<dbDown, outages, etcdVars, sPc, fwdVars, watchVars, revVars,
                   histVars, mainVars, retryVars, dsnVars, errChan>>

\* Another client of etcd puts a key.
ExternalPut(k, v) ==
    /\ EtcdPutStore(k, v)
    /\ UNCHANGED <<compactRev, compactions, etcdDown, etcdOutages, dbVars, sPc,
                   fwdVars, watchVars, revVars, histVars, mainVars, retryVars,
                   dsnVars, errChan>>

\* Another client of etcd deletes a key it holds.
ExternalDelete(k) ==
    /\ etcdKV[k].present
    /\ EtcdDeleteStore(k)
    /\ UNCHANGED <<compactRev, compactions, etcdDown, etcdOutages, dbVars, sPc,
                   fwdVars, watchVars, revVars, histVars, mainVars, retryVars,
                   dsnVars, errChan>>

\* The history below revision c is compacted away.
Compact(c) ==
    /\ compactions < MaxCompactions
    /\ c > compactRev
    /\ c <= etcdRev
    /\ compactRev' = c
    /\ compactions' = compactions + 1
    /\ UNCHANGED <<etcdKV, etcdRev, etcdLog, etcdDown, etcdOutages, dbVars, sPc,
                   fwdVars, watchVars, revVars, histVars, mainVars, retryVars,
                   dsnVars, errChan>>

\* The database becomes unreachable, and reachable again.
DbFail ==
    /\ ~dbDown
    /\ outages < MaxOutages
    /\ dbDown' = TRUE
    /\ outages' = outages + 1
    /\ UNCHANGED <<table, now, etcdVars, sPc, fwdVars, watchVars, revVars,
                   histVars, mainVars, retryVars, dsnVars, errChan>>

DbRecover ==
    /\ dbDown
    /\ dbDown' = FALSE
    /\ UNCHANGED <<table, now, outages, etcdVars, sPc, fwdVars, watchVars,
                   revVars, histVars, mainVars, retryVars, dsnVars, errChan>>

\* etcd becomes unreachable, and reachable again.
EtcdFail ==
    /\ ~etcdDown
    /\ etcdOutages < MaxOutages
    /\ etcdDown' = TRUE
    /\ etcdOutages' = etcdOutages + 1
    /\ UNCHANGED <<etcdKV, etcdRev, etcdLog, compactRev, compactions, dbVars,
                   sPc, fwdVars, watchVars, revVars, histVars, mainVars, retryVars,
                   dsnVars, errChan>>

EtcdRecover ==
    /\ etcdDown
    /\ etcdDown' = FALSE
    /\ UNCHANGED <<etcdKV, etcdRev, etcdLog, compactRev, compactions,
                   etcdOutages, dbVars, sPc, fwdVars, watchVars, revVars,
                   histVars, mainVars, retryVars, dsnVars, errChan>>

\* A client of the database calls etcd_update_revision(k, ts, rev): UPDATE
\* etcd SET revision = rev WHERE key = k AND ts = ts AND revision = -1. The
\* statement changes nothing when no row matches and when it fails on the
\* primary key.
etcd_update_revision(k, ts, rev) ==
    /\ ~dbDown
    /\ LET target == {r \in RowsAt(table, k, InvalidRevision) : r.ts = ts}
       IN  table' = IF target = {} \/ PkConflict(table, k, rev)
                    THEN table
                    ELSE (table \ target) \cup
                         {[r EXCEPT !.revision = rev] : r \in target}
    /\ UNCHANGED <<now, dbDown, outages, etcdVars, sPc, fwdVars, watchVars,
                   revVars, histVars, mainVars, retryVars, dsnVars, errChan>>


(***************************************************************************)
(* Service.Start and Service.initialSync.                                  *)
(***************************************************************************)
\* One record per key etcd holds, at the revision of the response header.
GetAllKeysAtHeader ==
    {[key |-> k, value |-> etcdKV[k].value, revision |-> etcdRev,
      ts |-> now, tombstone |-> FALSE] : k \in {x \in Keys : etcdKV[x].present}}

\* GetAllKeys: one record per key etcd holds, at the key's ModRevision.
GetAllKeys ==
    {[key |-> k, value |-> etcdKV[k].value, revision |-> etcdKV[k].mod,
      ts |-> now, tombstone |-> FALSE] : k \in {x \in Keys : etcdKV[x].present}}

\* Start runs initialSync: nothing to do when etcd holds no key; otherwise
\* one BulkInsert, and Start returns its error. Every call takes the root
\* context and fails once it is cancelled.
InitialSync ==
    /\ mPc = "start"
    /\ sPc = "init"
    /\ IF etcdDown \/ cancelled
       THEN /\ sPc' = "failed"
            /\ table' = table
            /\ syncedAt' = syncedAt
            /\ syncLog' = syncLog
       ELSE /\ syncedAt' = etcdRev
            /\ IF GetAllKeys = {}
               THEN /\ sPc' = "running"
                    /\ table' = table
                    /\ syncLog' = Append(syncLog, {})
               ELSE IF dbDown
               THEN /\ sPc' = "failed"
                    /\ table' = table
                    /\ syncLog' = syncLog
               ELSE /\ sPc' = "running"
                    /\ table' = BulkInsertTable(table, GetAllKeys)
                    /\ syncLog' = Append(syncLog, GetAllKeys)
    /\ UNCHANGED <<now, dbDown, outages, etcdVars, fwdVars, watchVars, revVars,
                   delivered, fwdLog, gaveUp, restarted, compactedAt, calls,
                   restarts, mainVars, retryVars, dsnVars, errChan>>

\* The daemon process ends and is started again later: Start runs on a new
\* Service.
Restart ==
    /\ sPc \in {"running", "failed"}
    /\ restarts < MaxRestarts
    /\ restarts' = restarts + 1
    /\ now' = now + 1
    /\ sPc' = "init"
    /\ fPc' = "start"
    /\ fBatch' = <<>>
    /\ fAttempt' = 0
    /\ latestRevision' = 0
    /\ wPc' = "off"
    /\ startRevision' = 0
    /\ currentRevision' = 0
    /\ wNext' = 0
    /\ wResp' = <<>>
    /\ rPc' = "idle"
    /\ rQueue' = <<>>
    /\ rAttempt' = 0
    /\ eAttempt' = 0
    /\ newRevision' = 0
    /\ errChan' = <<>>
    /\ UNCHANGED <<table, dbDown, outages, etcdVars, watchFaults, delivered,
                   fwdLog, gaveUp, restarted, compactedAt, syncedAt, calls,
                   syncLog, mainVars, retryVars, dsnVars>>

\* A Start that launches the two workers before it runs the initial sync.
StartedAtOnce == sPc \in {"init", "running", "canceled"}

\* Start has launched the two workers; they run on after Start has returned
\* on the cancellation.
Started == sPc \in {"running", "canceled"}

\* A channel without a buffer: a send goes through only while Start waits
\* in its select.
ErrChanUnbuffered == sPc = "running"

\* errChan <- err goes through when the buffer of errChan has room.
ErrChanHasRoom == Len(errChan) < ErrChanCap

(***************************************************************************)
(* EtcdClient.WatchWithRecovery and EtcdClient.WatchPrefix.                *)
(***************************************************************************)
\* WatchPrefix: the first revision the watch delivers. WithRev(rev + 1) is
\* passed only when rev > 0; without it etcd watches from its current
\* revision on.
WatchStart(rev) == IF rev > 0 THEN rev + 1 ELSE etcdRev + 1

\* A wrapper that never moves its cursor: every restart resumes from the
\* revision WatchWithRecovery was called with.
CursorKept(cur, events) == cur

\* "Update revision from successful events": the cursor after a response.
RECURSIVE CursorAfter(_, _)
CursorAfter(cur, events) ==
    IF events = <<>> THEN cur
    ELSE CursorAfter(IF Head(events).rev > cur THEN Head(events).rev ELSE cur,
                     Tail(events))

\* The outer loop establishes the inner watch from the cursor; its select
\* takes the default case only while the context is not cancelled.
WatcherSubscribe ==
    /\ Started
    /\ ~cancelled
    /\ wPc = "subscribe"
    /\ wNext' = WatchStart(currentRevision)
    /\ wPc' = "recv"
    /\ UNCHANGED <<startRevision, currentRevision, wResp, watchFaults, dbVars,
                   etcdVars, sPc, fwdVars, revVars, histVars, mainVars, retryVars,
                   dsnVars, errChan>>

\* The inner watch delivers the next n events; the cursor advances and the
\* response waits to be forwarded.
WatcherRecv(n) ==
    /\ Started
    /\ wPc = "recv"
    /\ wNext >= compactRev
    /\ wNext + n - 1 <= etcdRev
    /\ LET events == [i \in 1..n |-> EventAt(wNext + i - 1)]
       IN  /\ currentRevision' = CursorAfter(currentRevision, events)
           /\ wResp' = events
    /\ wNext' = wNext + n
    /\ wPc' = "send"
    /\ UNCHANGED <<startRevision, watchFaults, dbVars, etcdVars, sPc, fwdVars,
                   revVars, histVars, mainVars, retryVars, dsnVars, errChan>>

\* etcd answers that the requested revision is compacted: the response is
\* Canceled, and the wrapper sleeps and restarts the watch.
WatcherCompacted ==
    /\ Started
    /\ wPc = "recv"
    /\ wNext < compactRev
    /\ compactedAt' = wNext
    /\ restarted' = TRUE
    /\ wPc' = "subscribe"
    /\ UNCHANGED <<startRevision, currentRevision, wNext, wResp, watchFaults,
                   dbVars, etcdVars, sPc, fwdVars, revVars, delivered, fwdLog,
                   gaveUp, syncedAt, calls, restarts, syncLog, mainVars, retryVars,
                   dsnVars, errChan>>

\* The inner channel closes, is canceled or reports an error: the wrapper
\* sleeps and restarts the watch.
WatcherFault ==
    /\ Started
    /\ wPc = "recv"
    /\ watchFaults < MaxWatchFaults
    /\ watchFaults' = watchFaults + 1
    /\ restarted' = TRUE
    /\ wPc' = "subscribe"
    /\ UNCHANGED <<startRevision, currentRevision, wNext, wResp, dbVars,
                   etcdVars, sPc, fwdVars, revVars, delivered, fwdLog, gaveUp,
                   compactedAt, syncedAt, calls, restarts, syncLog, mainVars, retryVars,
                   dsnVars, errChan>>

(***************************************************************************)
(* Service.syncEtcdToPostgreSQL and Service.processEtcdEvent.              *)
(***************************************************************************)
\* The worker reads the latest revision of the table and starts the watch
\* from it; when the read fails the worker returns, its error is sent on
\* errChan, and Start returns: with the error it receives from errChan, or
\* on the cancellation, and then the error stays in the channel.
FwdStart ==
    /\ Started
    /\ fPc = "start"
    /\ IF dbDown \/ cancelled
       THEN /\ ErrChanHasRoom
            /\ errChan' = IF cancelled THEN Append(errChan, "latest")
                          ELSE errChan
            /\ fPc' = "failed"
            /\ sPc' = IF cancelled THEN "canceled" ELSE "failed"
            /\ UNCHANGED <<latestRevision, wPc, startRevision, currentRevision>>
       ELSE /\ fPc' = "recv"
            /\ sPc' = sPc
            /\ errChan' = errChan
            /\ latestRevision' = GetLatestRevisionOf(table)
            /\ startRevision' = GetLatestRevisionOf(table)
            /\ currentRevision' = GetLatestRevisionOf(table)
            /\ wPc' = "subscribe"
    /\ UNCHANGED <<fBatch, fAttempt, wNext, wResp, watchFaults, dbVars,
                   etcdVars, revVars, histVars, mainVars, retryVars,
                   dsnVars>>

\* The response passes over the unbuffered watchChan.
Deliver ==
    /\ Started
    /\ wPc = "send"
    /\ fPc = "recv"
    /\ fBatch' = wResp
    /\ fAttempt' = 0
    /\ fPc' = "event"
    /\ wResp' = <<>>
    /\ wPc' = "recv"
    /\ delivered' = delivered \o [i \in 1..Len(wResp) |-> wResp[i].rev]
    /\ UNCHANGED <<latestRevision, startRevision, currentRevision, wNext,
                   watchFaults, dbVars, etcdVars, sPc, revVars, fwdLog, gaveUp,
                   restarted, compactedAt, syncedAt, calls, restarts, syncLog, mainVars, retryVars,
                   dsnVars, errChan>>

\* A record of an event that never marks a deletion.
EventRecordLive(ev) ==
    [key |-> ev.key, value |-> IF ev.type = "PUT" THEN ev.value ELSE "",
     revision |-> ev.rev, ts |-> now, tombstone |-> FALSE]

\* processEtcdEvent: the event types of the switch; any other type is the
\* default branch, an error before any insert.
KnownEventTypes == {"PUT", "DELETE"}

\* processEtcdEvent: the record of an event.
EventRecord(ev) ==
    [key |-> ev.key, value |-> IF ev.type = "PUT" THEN ev.value ELSE "",
     revision |-> ev.rev, ts |-> now, tombstone |-> ev.type = "DELETE"]

\* The worker leaves the head event of the response.
FwdPop ==
    /\ fBatch' = Tail(fBatch)
    /\ fAttempt' = 0
    /\ fPc' = IF Tail(fBatch) = <<>> THEN "recv" ELSE "event"

\* One attempt of RetryWithBackoff on the head event: the insert succeeds
\* and the watermark advances, or processEtcdEvent returns an error (the
\* event type is unknown, or the insert fails) and is retried, or it failed
\* MaxRetries + 1 times and the event is logged and left.
FwdProcessEvent ==
    /\ Started
    /\ fPc = "event"
    /\ LET ev == Head(fBatch)
       IN  IF ev.type \in KnownEventTypes /\ ~dbDown /\ ~cancelled
           THEN /\ table' = BulkInsertTable(table, {EventRecord(ev)})
                /\ latestRevision' = ev.rev
                /\ fwdLog' = Append(fwdLog, ev.rev)
                /\ gaveUp' = gaveUp
                /\ FwdPop
           ELSE IF fAttempt < MaxRetries
           THEN /\ fAttempt' = fAttempt + 1
                /\ UNCHANGED <<table, latestRevision, fwdLog, gaveUp, fBatch, fPc>>
           ELSE /\ gaveUp' = gaveUp \cup {ev.rev}
                /\ FwdPop
                /\ UNCHANGED <<table, latestRevision, fwdLog>>
    /\ UNCHANGED <<now, dbDown, outages, etcdVars, sPc, watchVars, revVars,
                   delivered, restarted, compactedAt, syncedAt, calls,
                   restarts, syncLog, mainVars, retryVars, dsnVars, errChan>>

(***************************************************************************)
(* Service.syncPostgreSQLToEtcd, pollAndProcessPendingRecords and          *)
(* processPendingRecord.                                                   *)
(***************************************************************************)
\* A poller that starts a cycle on every tick, whatever the cycle before it
\* is doing.
PollerOnEveryTick == TRUE

\* The worker is at the select of its loop: the one goroutine takes a tick
\* only after pollAndProcessPendingRecords has returned. The ticker keeps at
\* most one tick for it meanwhile.
PollerAtSelect == rPc = "idle"

\* A tick: the pending records are read; a failed read is logged.
Poll ==
    /\ Started
    /\ PollerAtSelect
    /\ IF dbDown \/ cancelled
       THEN UNCHANGED <<rQueue, rPc, calls>>
       ELSE /\ rQueue' = GetPendingRecordsOf(table)
            /\ rPc' = IF GetPendingRecordsOf(table) = <<>> THEN "idle" ELSE "apply"
            /\ calls' = <<>>
    /\ UNCHANGED <<rAttempt, eAttempt, newRevision, dbVars, etcdVars, sPc,
                   fwdVars, watchVars, delivered, fwdLog, gaveUp, restarted,
                   compactedAt, syncedAt, restarts, syncLog, mainVars, retryVars,
                   dsnVars, errChan>>

\* A choice of operation that treats an empty value as a deletion.
EtcdOpByValue(rec) ==
    IF rec.tombstone \/ rec.value = "" THEN "DELETE" ELSE "PUT"

\* processPendingRecord chooses the etcd operation of a record.
EtcdOp(rec) == IF rec.tombstone THEN "DELETE" ELSE "PUT"

\* The call processPendingRecord makes for a record.
EtcdCall(rec) == [op |-> EtcdOp(rec), key |-> rec.key, value |-> rec.value]

\* A worker that ends the poll cycle at the first record it cannot process.
RevAbort ==
    /\ rQueue' = <<>>
    /\ rAttempt' = 0
    /\ eAttempt' = 0
    /\ rPc' = "idle"

\* The worker leaves the head record.
RevPop ==
    /\ rQueue' = Tail(rQueue)
    /\ rAttempt' = 0
    /\ eAttempt' = 0
    /\ rPc' = IF Tail(rQueue) = <<>> THEN "idle" ELSE "apply"

\* processPendingRecord, first half: one attempt of RetryEtcdOperation on the
\* call of the head record. When it succeeds the header revision of the
\* response is kept. When it fails it is tried again, and after
\* MaxRetries + 1 failures processPendingRecord returns the error:
\* RetryWithBackoff runs processPendingRecord again, or leaves the record
\* after MaxRetries + 1 failed attempts.
RevApply ==
    /\ Started
    /\ rPc = "apply"
    /\ LET rec == Head(rQueue)
           call == EtcdCall(rec)
       IN  IF ~etcdDown /\ ~cancelled
           THEN /\ IF call.op = "DELETE"
                   THEN /\ etcdKV[call.key].present => etcdRev < MaxRev
                        /\ EtcdDeleteStore(call.key)
                   ELSE /\ etcdRev < MaxRev
                        /\ EtcdPutStore(call.key, call.value)
                /\ newRevision' = etcdRev'
                /\ calls' = Append(calls, [call |-> call, record |-> rec])
                /\ rPc' = "stamp"
                /\ eAttempt' = 0
                /\ UNCHANGED <<rQueue, rAttempt>>
           ELSE /\ UNCHANGED <<etcdKV, etcdRev, etcdLog, newRevision, calls>>
                /\ IF eAttempt < MaxRetries
                   THEN /\ eAttempt' = eAttempt + 1
                        /\ UNCHANGED <<rPc, rQueue, rAttempt>>
                   ELSE IF rAttempt < MaxRetries
                   THEN /\ rAttempt' = rAttempt + 1
                        /\ eAttempt' = 0
                        /\ UNCHANGED <<rPc, rQueue>>
                   ELSE RevPop
    /\ UNCHANGED <<compactRev, compactions, etcdDown, etcdOutages, dbVars, sPc,
                   fwdVars, watchVars, delivered, fwdLog, gaveUp, restarted,
                   compactedAt, syncedAt, restarts, syncLog, mainVars, retryVars,
                   dsnVars, errChan>>

\* What UpdateRevision(key, rev) returns and leaves in the table.
UpdateRevision(k, rev) ==
    IF dbDown \/ cancelled THEN [err |-> "db", table |-> table]
    ELSE UpdateRevisionResult(table, k, rev)

\* processPendingRecord, second half: UpdateRevision. Its error is the
\* error of processPendingRecord, which RetryWithBackoff runs again from
\* the start until MaxRetries + 1 attempts have failed.
RevStamp ==
    /\ Started
    /\ rPc = "stamp"
    /\ LET res == UpdateRevision(Head(rQueue).key, newRevision)
       IN  /\ table' = res.table
           /\ IF res.err = "none"
              THEN RevPop
              ELSE IF rAttempt < MaxRetries
              THEN /\ rAttempt' = rAttempt + 1
                   /\ rPc' = "apply"
                   /\ UNCHANGED <<rQueue, eAttempt>>
              ELSE RevPop
    /\ UNCHANGED <<newRevision, now, dbDown, outages, etcdVars, sPc, fwdVars,
                   watchVars, histVars, mainVars, retryVars,
                   dsnVars, errChan>>

(***************************************************************************)
(* The daemon with the applications and the other clients of etcd, the     *)
(* database and the watch channel without faults.                          *)
(***************************************************************************)
Next ==
    \/ \E k \in Keys, v \in AppValues : etcd_put(k, v)
    \/ \E k \in Keys : etcd_delete(k)
    \/ \E k \in Keys, v \in AppValues, tomb \in BOOLEAN :
           InsertPendingRecord(k, v, tomb)
    \/ etcdRev < MaxRev /\ \E k \in Keys, v \in ExtValues : ExternalPut(k, v)
    \/ etcdRev < MaxRev /\ \E k \in Keys : ExternalDelete(k)
    \/ InitialSync
    \/ FwdStart
    \/ WatcherSubscribe
    \/ \E n \in 1..MaxBatch : WatcherRecv(n)
    \/ Deliver
    \/ FwdProcessEvent
    \/ Poll
    \/ RevApply
    \/ RevStamp

Spec == Init /\ [][Next]_vars

(***************************************************************************)
(* The daemon with the applications alone: every write to etcd is one of   *)
(* the reverse path.                                                       *)
(***************************************************************************)
NextApp ==
    \/ \E k \in Keys, v \in AppValues : etcd_put(k, v)
    \/ \E k \in Keys : etcd_delete(k)
    \/ \E k \in Keys, v \in AppValues, tomb \in BOOLEAN :
           InsertPendingRecord(k, v, tomb)
    \/ InitialSync
    \/ FwdStart
    \/ WatcherSubscribe
    \/ \E n \in 1..MaxBatch : WatcherRecv(n)
    \/ Deliver
    \/ FwdProcessEvent
    \/ Poll
    \/ RevApply
    \/ RevStamp

SpecApp == Init /\ [][NextApp]_vars

(***************************************************************************)
(* The same with every goroutine of the daemon scheduled again and again:  *)
(* Start, the two workers and the watch goroutine each take their next     *)
(* step when it stays possible.                                            *)
(***************************************************************************)
SpecDrain ==
    /\ Init
    /\ [][NextApp]_vars
    /\ WF_vars(InitialSync)
    /\ WF_vars(FwdStart)
    /\ WF_vars(WatcherSubscribe)
    /\ WF_vars(\E n \in 1..MaxBatch : WatcherRecv(n))
    /\ WF_vars(Deliver)
    /\ WF_vars(FwdProcessEvent)
    /\ WF_vars(Poll)
    /\ WF_vars(RevApply)
    /\ WF_vars(RevStamp)

(***************************************************************************)
(* The forward path under faults: database outages and faults of the       *)
(* watch channel, with the other clients of etcd writing.                  *)
(***************************************************************************)
NextFwd ==
    \/ etcdRev < MaxFwdRev /\ \E k \in Keys, v \in ExtValues : ExternalPut(k, v)
    \/ etcdRev < MaxFwdRev /\ \E k \in Keys : ExternalDelete(k)
    \/ DbFail
    \/ DbRecover
    \/ InitialSync
    \/ FwdStart
    \/ WatcherSubscribe
    \/ \E n \in 1..MaxBatch : WatcherRecv(n)
    \/ WatcherFault
    \/ Deliver
    \/ FwdProcessEvent

SpecFwd == Init /\ [][NextFwd]_vars

(***************************************************************************)
(* The forward path with the etcd history being compacted.                 *)
(***************************************************************************)
NextCompact ==
    \/ etcdRev < MaxFwdRev /\ \E k \in Keys, v \in ExtValues : ExternalPut(k, v)
    \/ etcdRev < MaxFwdRev /\ \E k \in Keys : ExternalDelete(k)
    \/ \E c \in 1..MaxFwdRev : Compact(c)
    \/ InitialSync
    \/ FwdStart
    \/ WatcherSubscribe
    \/ \E n \in 1..MaxBatch : WatcherRecv(n)
    \/ WatcherCompacted
    \/ Deliver
    \/ FwdProcessEvent

SpecCompact == Init /\ [][NextCompact]_vars

(***************************************************************************)
(* The reverse path with outages of etcd.                                  *)
(***************************************************************************)
NextRev ==
    \/ \E k \in Keys, v \in AppValues : etcd_put(k, v)
    \/ \E k \in Keys : etcd_delete(k)
    \/ \E k \in Keys, v \in AppValues, tomb \in BOOLEAN :
           InsertPendingRecord(k, v, tomb)
    \/ EtcdFail
    \/ EtcdRecover
    \/ InitialSync
    \/ Poll
    \/ RevApply
    \/ RevStamp

SpecRev == Init /\ [][NextRev]_vars

(***************************************************************************)
(* The reverse path with outages of the database and with other clients of *)
(* the database stamping pending rows.                                     *)
(***************************************************************************)
NextStamp ==
    \/ \E k \in Keys, v \in AppValues : etcd_put(k, v)
    \/ \E k \in Keys : etcd_delete(k)
    \/ \E k \in Keys, v \in AppValues, tomb \in BOOLEAN :
           InsertPendingRecord(k, v, tomb)
    \/ \E k \in Keys, ts \in 1..MaxTs, rev \in 1..MaxRev :
           etcd_update_revision(k, ts, rev)
    \/ DbFail
    \/ DbRecover
    \/ InitialSync
    \/ Poll
    \/ RevApply
    \/ RevStamp

SpecStamp == Init /\ [][NextStamp]_vars

(***************************************************************************)
(* The initial sync of a daemon that is started again and again, with the  *)
(* other clients of etcd writing.                                          *)
(***************************************************************************)
NextSync ==
    \/ etcdRev < MaxFwdRev /\ \E k \in Keys, v \in ExtValues : ExternalPut(k, v)
    \/ etcdRev < MaxFwdRev /\ \E k \in Keys : ExternalDelete(k)
    \/ DbFail
    \/ DbRecover
    \/ InitialSync
    \/ Restart

SpecSync == Init /\ [][NextSync]_vars

(***************************************************************************)
(* The forward path of a daemon that is stopped and started again over the *)
(* table it left, with the other clients of etcd writing meanwhile.        *)
(***************************************************************************)
NextResume ==
    \/ etcdRev < MaxFwdRev /\ \E k \in Keys, v \in ExtValues : ExternalPut(k, v)
    \/ etcdRev < MaxFwdRev /\ \E k \in Keys : ExternalDelete(k)
    \/ InitialSync
    \/ Restart
    \/ FwdStart
    \/ WatcherSubscribe
    \/ \E n \in 1..MaxBatch : WatcherRecv(n)
    \/ Deliver
    \/ FwdProcessEvent

SpecResume == Init /\ [][NextResume]_vars

(***************************************************************************)
(* processEtcdEvent on its own: the worker holds a response of one event   *)
(* of any type, over a table that holds nothing, a pending row or a        *)
(* synced row of the event's key.                                          *)
(***************************************************************************)
EventTypes == KnownEventTypes \cup {"OTHER"}

WatchEvents ==
    {PutEvent(k, v, rev) : k \in Keys, v \in ExtValues \cup {""}, rev \in 2..MaxRev}
        \cup {DeleteEvent(k, rev) : k \in Keys, rev \in 2..MaxRev}
        \cup {[type |-> "OTHER", key |-> k, value |-> v, rev |-> rev] :
                  k \in Keys, v \in ExtValues, rev \in 2..MaxRev}

InitEvent ==
    /\ \E ev \in WatchEvents :
           /\ fBatch = <<ev>>
           /\ table \in {{}, {Row(ev.key, "p", InvalidRevision, 0, FALSE)},
                         {Row(ev.key, "p", ev.rev, 0, FALSE)},
                         {Row(ev.key, "p", ev.rev - 1, 0, FALSE)}}
    /\ now = 1
    /\ dbDown = FALSE
    /\ outages = 0
    /\ etcdKV = [k \in Keys |-> Absent]
    /\ etcdRev = 1
    /\ etcdLog = <<>>
    /\ compactRev = 0
    /\ compactions = 0
    /\ etcdDown = FALSE
    /\ etcdOutages = 0
    /\ sPc = "running"
    /\ fPc = "event"
    /\ fAttempt = 0
    /\ latestRevision = 0
    /\ wPc = "recv"
    /\ startRevision = 1
    /\ currentRevision = 0
    /\ wNext = 1
    /\ wResp = <<>>
    /\ watchFaults = 0
    /\ rPc = "idle"
    /\ rQueue = <<>>
    /\ rAttempt = 0
    /\ eAttempt = 0
    /\ newRevision = 0
    /\ delivered = <<>>
    /\ fwdLog = <<>>
    /\ gaveUp = {}
    /\ restarted = FALSE
    /\ compactedAt = 0
    /\ syncedAt = 0
    /\ calls = <<>>
    /\ restarts = 0
    /\ syncLog = <<>>
    /\ cancelled = FALSE
    /\ mPc = "start"
    /\ mAttempt = 0
    /\ RetryIdle
    /\ DsnIdle
    /\ errChan = <<>>

NextEvent ==
    \/ DbFail
    \/ DbRecover
    \/ FwdProcessEvent

SpecEvent == InitEvent /\ [][NextEvent]_vars

(***************************************************************************)
(* The workers on cancellation of the root context.                        *)
(***************************************************************************)
\* The positions of the watch goroutine that select on ctx.Done, all but
\* the send on watchChan.
WatcherSelectsNoSend == {"subscribe", "recv"}

\* The positions of the watch goroutine that select on ctx.Done: the outer
\* loop, the receive from the inner watch, the send on watchChan.
WatcherSelects == {"subscribe", "recv", "send"}

\* The watch goroutine takes the case of ctx.Done and returns; watchChan is
\* closed.
WatcherCancelled ==
    /\ Started
    /\ cancelled
    /\ wPc \in WatcherSelects
    /\ wPc' = "done"
    /\ wResp' = <<>>
    /\ UNCHANGED <<startRevision, currentRevision, wNext, watchFaults, dbVars,
                   etcdVars, sPc, fwdVars, revVars, histVars, mainVars,
                   retryVars, dsnVars, errChan>>

\* The forward worker on the cancelled context: GetLatestRevision fails and
\* the worker returns; the select on watchChan takes ctx.Done (or finds the
\* channel closed) and the worker returns; inside RetryWithBackoff the
\* attempt fails, the wait ends on ctx.Done, the event is logged and left.
FwdCancelled ==
    /\ Started
    /\ cancelled
    /\ fPc \in {"start", "recv", "event"}
    /\ IF fPc = "event"
       THEN /\ gaveUp' = gaveUp \cup {Head(fBatch).rev}
            /\ FwdPop
            /\ errChan' = errChan
       ELSE /\ ErrChanHasRoom
            /\ errChan' = Append(errChan, "ctx")
            /\ fPc' = "done"
            /\ UNCHANGED <<fBatch, fAttempt, gaveUp>>
    /\ UNCHANGED <<latestRevision, dbVars, etcdVars, sPc, watchVars, revVars,
                   delivered, fwdLog, restarted, compactedAt, syncedAt, calls,
                   restarts, syncLog, mainVars, retryVars, dsnVars>>

\* The reverse worker on the cancelled context: the select on the ticker
\* takes ctx.Done and the worker returns; inside a poll cycle the call in
\* progress fails, the wait of RetryWithBackoff ends on ctx.Done, the
\* record is logged and left.
RevCancelled ==
    /\ Started
    /\ cancelled
    /\ rPc \in {"idle", "apply", "stamp"}
    /\ IF rPc = "idle"
       THEN /\ ErrChanHasRoom
            /\ errChan' = Append(errChan, "ctx")
            /\ rPc' = "done"
            /\ UNCHANGED <<rQueue, rAttempt, eAttempt>>
       ELSE /\ RevPop
            /\ errChan' = errChan
    /\ UNCHANGED <<newRevision, dbVars, etcdVars, sPc, fwdVars, watchVars,
                   histVars, mainVars, retryVars, dsnVars>>

(***************************************************************************)
(* main: the connections, Start, and the exit of the process.              *)
(***************************************************************************)
\* SetupCloseHandler: a signal arrives and the root context is cancelled.
Cancel ==
    /\ ~cancelled
    /\ cancelled' = TRUE
    /\ UNCHANGED <<mPc, mAttempt, dbVars, etcdVars, sPc, fwdVars, watchVars,
                   revVars, histVars, retryVars, dsnVars, errChan>>

\* One attempt of NewWithRetry: the pool is created and pinged with the
\* root context. After MaxRetries + 1 failures main ends with Fatal.
MainConnectPg ==
    /\ mPc = "connect_pg"
    /\ IF ~dbDown /\ ~cancelled
       THEN /\ mPc' = "connect_etcd"
            /\ mAttempt' = 0
       ELSE IF mAttempt < MaxRetries
       THEN /\ mAttempt' = mAttempt + 1
            /\ mPc' = mPc
       ELSE /\ mPc' = "exit1"
            /\ mAttempt' = mAttempt
    /\ UNCHANGED <<cancelled, dbVars, etcdVars, sPc, fwdVars, watchVars, revVars,
                   histVars, retryVars, dsnVars, errChan>>

\* One attempt of NewEtcdClientWithRetry: the client is created and a key
\* is read with the root context.
MainConnectEtcd ==
    /\ mPc = "connect_etcd"
    /\ IF ~etcdDown /\ ~cancelled
       THEN /\ mPc' = "start"
            /\ mAttempt' = 0
       ELSE IF mAttempt < MaxRetries
       THEN /\ mAttempt' = mAttempt + 1
            /\ mPc' = mPc
       ELSE /\ mPc' = "exit1"
            /\ mAttempt' = mAttempt
    /\ UNCHANGED <<cancelled, dbVars, etcdVars, sPc, fwdVars, watchVars, revVars,
                   histVars, retryVars, dsnVars, errChan>>

\* The wait between two connection attempts ends on ctx.Done: the retry
\* returns ctx.Err() and main ends with Fatal.
MainConnectCancelled ==
    /\ mPc \in {"connect_pg", "connect_etcd"}
    /\ mAttempt > 0
    /\ cancelled
    /\ mPc' = "exit1"
    /\ UNCHANGED <<cancelled, mAttempt, dbVars, etcdVars, sPc, fwdVars,
                   watchVars, revVars, histVars, retryVars, dsnVars, errChan>>

\* Start has returned: Fatal when it returned an error and the context is
\* not cancelled, "Graceful shutdown completed" otherwise.
MainExit ==
    /\ mPc = "start"
    /\ sPc \in {"failed", "canceled"}
    /\ mPc' = IF sPc = "failed" /\ ~cancelled THEN "exit1" ELSE "exit0"
    /\ UNCHANGED <<cancelled, mAttempt, dbVars, etcdVars, sPc, fwdVars,
                   watchVars, revVars, histVars, retryVars, dsnVars, errChan>>

\* Start, waiting in its select, takes the case of ctx.Done and returns
\* ctx.Err().
StartCancelled ==
    /\ sPc = "running"
    /\ cancelled
    /\ sPc' = "canceled"
    /\ UNCHANGED <<dbVars, etcdVars, fwdVars, watchVars, revVars, histVars,
                   mainVars, retryVars, dsnVars, errChan>>

\* main from its first connection on.
InitMain ==
    /\ DaemonInit
    /\ cancelled = FALSE
    /\ mPc = "connect_pg"
    /\ mAttempt = 0
    /\ RetryIdle
    /\ DsnIdle

NextMain ==
    \/ etcdRev < MaxRev /\ \E k \in Keys, v \in ExtValues : ExternalPut(k, v)
    \/ DbFail
    \/ DbRecover
    \/ EtcdFail
    \/ EtcdRecover
    \/ mPc \notin {"exit0", "exit1"} /\ Cancel
    \/ MainConnectPg
    \/ MainConnectEtcd
    \/ MainConnectCancelled
    \/ InitialSync
    \/ FwdStart
    \/ StartCancelled
    \/ MainExit

SpecMain == InitMain /\ [][NextMain]_vars

(***************************************************************************)
(* The daemon at work when the root context is cancelled: applications    *)
(* have written a pending row for some keys before it starts, the reverse  *)
(* path applies them and the forward path receives their events. The       *)
(* scheduler runs every goroutine that can take a step, and a select whose *)
(* ctx.Done case stays ready takes it in the end.                          *)
(***************************************************************************)
NextCancel ==
    \/ /\ sPc = "init"
       /\ \E k \in Keys : /\ RowsAt(table, k, InvalidRevision) = {}
                           /\ InsertPendingRecord(k, "p", FALSE)
    \/ Cancel
    \/ InitialSync
    \/ StartCancelled
    \/ FwdStart
    \/ WatcherSubscribe
    \/ \E n \in 1..MaxBatch : WatcherRecv(n)
    \/ WatcherFault
    \/ WatcherCancelled
    \/ Deliver
    \/ FwdProcessEvent
    \/ FwdCancelled
    \/ Poll
    \/ RevApply
    \/ RevStamp
    \/ RevCancelled

SpecCancel ==
    /\ Init
    /\ [][NextCancel]_vars
    /\ WF_vars(InitialSync)
    /\ WF_vars(StartCancelled)
    /\ WF_vars(WatcherCancelled)
    /\ WF_vars(FwdCancelled)
    /\ WF_vars(RevCancelled)

(***************************************************************************)
(* RetryWithBackoff on its own: one call, with an operation whose outcome  *)
(* at each call is drawn at the start, and a context that may be cancelled *)
(* while the call runs.                                                    *)
(***************************************************************************)
\* A loop that makes MaxRetries attempts in all.
LoopContinuesShort(a) == a < MaxRetries

\* for attempt := 0; attempt <= config.MaxRetries; attempt++
LoopContinues(a) == a <= MaxRetries

\* operation() is called: nil is returned at once; an error is kept as
\* lastErr and the loop goes on, to the wait of the next attempt or, after
\* the last attempt, to the return of the wrapped lastErr.
RetryAttempt ==
    /\ bPc = "attempt"
    /\ opCalls' = opCalls + 1
    /\ IF opPlan[opCalls + 1]
       THEN /\ lastErr' = opCalls + 1
            /\ attempt' = attempt + 1
            /\ IF LoopContinues(attempt + 1)
               THEN /\ bPc' = "wait"
                    /\ bResult' = bResult
               ELSE /\ bPc' = "done"
                    /\ bResult' = [kind |-> "wrapped", cause |-> opCalls + 1]
       ELSE /\ bPc' = "done"
            /\ bResult' = [kind |-> "nil", cause |-> 0]
            /\ UNCHANGED <<lastErr, attempt>>
    /\ UNCHANGED <<opPlan, mainVars, dbVars, etcdVars, sPc, fwdVars, watchVars,
                   revVars, histVars, dsnVars, errChan>>

\* The select before an attempt takes the case of time.After.
RetryTimer ==
    /\ bPc = "wait"
    /\ bPc' = "attempt"
    /\ UNCHANGED <<attempt, opCalls, opPlan, lastErr, bResult, mainVars, dbVars,
                   etcdVars, sPc, fwdVars, watchVars, revVars, histVars,
                   dsnVars, errChan>>

\* The select before an attempt takes the case of ctx.Done.
RetryCancelled ==
    /\ bPc = "wait"
    /\ cancelled
    /\ bPc' = "done"
    /\ bResult' = [kind |-> "canceled", cause |-> 0]
    /\ UNCHANGED <<attempt, opCalls, opPlan, lastErr, mainVars, dbVars,
                   etcdVars, sPc, fwdVars, watchVars, revVars, histVars,
                   dsnVars, errChan>>

InitRetry ==
    /\ DaemonInit
    /\ MainConnected
    /\ bPc = "attempt"
    /\ attempt = 0
    /\ opCalls = 0
    /\ opPlan \in [1..(MaxRetries + 1) -> BOOLEAN]
    /\ lastErr = 0
    /\ bResult = [kind |-> "none", cause |-> 0]
    /\ DsnIdle

NextRetry ==
    \/ bPc # "done" /\ Cancel
    \/ RetryAttempt
    \/ RetryTimer
    \/ RetryCancelled

SpecRetry == InitRetry /\ [][NextRetry]_vars

(***************************************************************************)
(* The etcd DSN on its way through main: NewEtcdClient parses it,          *)
(* NewService builds the service and initialSync makes its range read.     *)
(***************************************************************************)
\* NewEtcdClient: parseEtcdDSN(dsn).
ParseEtcdDSN ==
    /\ dPc = "new"
    /\ cfg' = parseEtcdDSN(dsn)
    /\ dPc' = "parsed"
    /\ UNCHANGED <<dsn, svcPrefix, readKeys, errChan, dbVars, etcdVars, sPc,
                   fwdVars, watchVars, revVars, histVars, mainVars, retryVars>>

\* main builds the service once the client is there: NewService(pgPool,
\* etcdClient, pollingInterval) fills three fields of the Service and
\* leaves its prefix the empty string.
NewService ==
    /\ dPc = "parsed"
    /\ cfg.err = "none"
    /\ svcPrefix' = <<>>
    /\ dPc' = "service"
    /\ UNCHANGED <<dsn, cfg, readKeys, errChan, dbVars, etcdVars, sPc, fwdVars,
                   watchVars, revVars, histVars, mainVars, retryVars>>

\* initialSync: GetAllKeys(ctx, s.prefix).
InitialSyncRange ==
    /\ dPc = "service"
    /\ readKeys' = RangeKeys(svcPrefix)
    /\ dPc' = "synced"
    /\ UNCHANGED <<dsn, cfg, svcPrefix, errChan, dbVars, etcdVars, sPc, fwdVars,
                   watchVars, revVars, histVars, mainVars, retryVars>>

InitDsn ==
    /\ DaemonInit
    /\ MainConnected
    /\ RetryIdle
    /\ dsn \in Dsns
    /\ dPc = "new"
    /\ cfg = [err |-> "none", endpoints |-> <<>>]
    /\ svcPrefix = <<>>
    /\ readKeys = {}

NextDsn ==
    \/ ParseEtcdDSN
    \/ NewService
    \/ InitialSyncRange

SpecDsn == InitDsn /\ [][NextDsn]_vars

(***************************************************************************)
(* Properties.                                                             *)
(***************************************************************************)
Range(seq) == {seq[i] : i \in 1..Len(seq)}

\* The rows of key k no stamp has reached yet.
Pending(t, k) == RowsAt(t, k, InvalidRevision)

C2_PutThenGetReturnsPending ==
    [][\A k \in Keys, v \in AppValues :
          (etcd_put(k, v) /\ table' # table)
              => etcd_get(table', k) =
                     {Row(k, v, InvalidRevision, now', FALSE)}]_vars

\* The forward path has nothing left to do and every event of the etcd
\* history went through it.
ForwardCaughtUp ==
    /\ sPc = "running"
    /\ fPc = "recv"
    /\ wPc = "recv"
    /\ wNext = etcdRev + 1
    /\ \A rev \in 2..etcdRev : rev \in Range(fwdLog)

\* No row is pending and the reverse worker holds no record.
NothingPending ==
    /\ \A k \in Keys : Pending(table, k) = {}
    /\ rPc = "idle"

\* etcd_get(k) shows what etcd holds for k: its value, or a tombstone (or no
\* row at all) when etcd does not hold k.
ShowsEtcd(k) ==
    IF etcdKV[k].present
    THEN \E r \in etcd_get(table, k) :
             ~r.tombstone /\ r.value = etcdKV[k].value
    ELSE \A r \in etcd_get(table, k) : r.tombstone

\* C3: once no row is pending and the forward path has processed every
\* event, etcd_get(k) returns the current state of k in etcd, for every key.
C3_ConvergesToEtcd ==
    (NothingPending /\ ForwardCaughtUp) => \A k \in Keys : ShowsEtcd(k)

\* C4: for forwarded events of revisions r1 < r2 the row of r1 is inserted
\* before the row of r2, also across restarts of the watch: in the order of
\* the forward worker's inserts no smaller revision follows a greater one.
C4_ForwardInsertsInRevisionOrder ==
    \A i, j \in 1..Len(fwdLog) : fwdLog[i] < fwdLog[j] => i < j

\* C4 happens: the worker inserted two events and the watch was restarted.
C4_Witness ==
    /\ restarted
    /\ Len(fwdLog) >= 2
    /\ fwdLog[1] < fwdLog[2]

\* C5: the first watch starts at baseline + 1 and every event above the
\* baseline is delivered exactly once, the events between the initial range
\* read and the subscription included, and also when the baseline is 0: the
\* deliveries are consecutive revisions, they start above the baseline, and
\* they leave out no event committed after the initial range read.
C5_EveryEventAboveBaselineDelivered ==
    ~restarted =>
        /\ \A i \in 1..(Len(delivered) - 1) : delivered[i + 1] = delivered[i] + 1
        /\ delivered # <<>> =>
               /\ delivered[1] > startRevision
               /\ delivered[1] <= Max(startRevision, syncedAt) + 1

\* A step that establishes the inner watch again after a restart.
Resubscribes == wPc = "subscribe" /\ wPc' = "recv" /\ restarted

\* C6: the cursor passes only events whose insertion succeeded: an event
\* whose insertion failed is delivered again after a restart.
C6_FailedEventRedelivered ==
    [][Resubscribes => \A r \in gaveUp \ Range(fwdLog) : wNext' <= r]_vars

\* C7: after a restart the watch resumes at currentRevision + 1: no event
\* up to currentRevision is delivered again and none above it is missed,
\* that is, the new watch does not start beyond the first revision the
\* watch before it had still to deliver.
C7_ResumesAfterCursor ==
    [][Resubscribes => (wNext' > currentRevision /\ wNext' <= wNext)]_vars

\* C8: once etcd has answered that a revision is compacted, the forward
\* path does not subscribe at that revision again.
C8_LeavesCompactedRevision ==
    [][(Resubscribes /\ compactedAt # 0) => wNext' # compactedAt]_vars

\* The forward worker has inserted the event of revision rev, an event of
\* key k.
ForwardInserted(k, rev) ==
    /\ rev \in Range(fwdLog)
    /\ EventAt(rev).key = k

\* C9: the stamp of revision R on the pending row of k never fails on the
\* primary key when the forward path has inserted (k, R) before it.
C9_StampNeverHitsPrimaryKey ==
    (rPc = "stamp" /\ ForwardInserted(Head(rQueue).key, newRevision))
        => UpdateRevision(Head(rQueue).key, newRevision).err # "pk"

\* C10: the stamp changes exactly the pending row the worker read, the one
\* with the key and the ts of the record; when that row was rewritten in
\* between, the stamp matches no row and leaves the table as it is.
C10_StampOnlyTheRowRead ==
    [][(rPc = "stamp" /\ rPc' # "stamp") =>
          LET rec == Head(rQueue)
          IN  \/ table' = table
              \/ \E r \in Pending(table, rec.key) :
                     /\ r.ts = rec.ts
                     /\ table' = (table \ {r}) \cup
                                    {[r EXCEPT !.revision = newRevision]}]_vars

\* C11: each pending row is applied to etcd once: while the row a record
\* was read from is pending, the reverse worker makes no second successful
\* etcd call for the record, also when the revision update that follows
\* the call fails and is retried.
C11_AppliedOnce ==
    \A i, j \in 1..Len(calls) :
        (calls[i].record = calls[j].record /\ calls[i].record \in table)
            => i = j

\* The step in which the reverse worker's UpdateRevision returns.
StampReturns == rPc = "stamp" /\ rPc' # "stamp"

\* C12: when the revision update finds no matching row after a successful
\* etcd call, the reverse worker treats it as a no-op: it leaves the record,
\* does not retry it and does not call etcd again for it.
C12_NoMatchIsNoOp ==
    [][(StampReturns
          /\ UpdateRevision(Head(rQueue).key, newRevision).err = "notfound")
              => rQueue' = Tail(rQueue)]_vars

\* C13: UpdateRevision(key, r) on a key that has a pending row changes the
\* revision of that row from -1 to r, so that GetPendingRecords no longer
\* returns the key; on a key without a pending row it returns "no pending
\* record found" and leaves the table as it is.
C13_UpdateRevisionStampsOrReports ==
    [][StampReturns =>
          LET k == Head(rQueue).key
          IN  IF Pending(table, k) # {}
              THEN /\ \A r \in Pending(table, k) :
                          [r EXCEPT !.revision = newRevision] \in table'
                   /\ \A i \in 1..Len(GetPendingRecordsOf(table')) :
                          GetPendingRecordsOf(table')[i].key # k
              ELSE /\ UpdateRevision(k, newRevision).err = "notfound"
                   /\ table' = table]_vars

\* C14: the revision of a row changes only from -1 to a strictly positive
\* value: every revision is -1 or positive, a row that stops being pending
\* has a positive revision the key did not have, and a row with a positive
\* revision keeps its key and revision for ever.
C14_RevisionOnlyFromPendingToPositive ==
    [][/\ \A r \in table' : r.revision = InvalidRevision \/ r.revision > 0
       /\ \A r \in table :
              r.revision > 0 => PkConflict(table', r.key, r.revision)
       /\ \A k \in Keys :
              (Pending(table, k) # {} /\ Pending(table', k) = {})
                  => \E r \in table' : /\ r.key = k
                                       /\ r.revision > 0
                                       /\ ~PkConflict(table, k, r.revision)]_vars

\* C14 happens: the forward worker has inserted nothing and the table holds
\* a row with a positive revision, the row of an applied pending write.
C14_Witness ==
    /\ fwdLog = <<>>
    /\ rPc = "idle"
    /\ \E r \in table : r.revision > 0 /\ r.ts > 0

\* A step in which an etcd call of the reverse worker fails.
EtcdCallFails ==
    /\ rPc = "apply"
    /\ etcdDown
    /\ <<eAttempt, rAttempt, rQueue>>' # <<eAttempt, rAttempt, rQueue>>

\* C15: when the etcd call for a pending record fails, on every retry, the
\* table is left as it is; when the worker leaves the record, it goes on
\* with the remaining records of the cycle, and the row is still pending
\* and among the records the next poll reads.
C15_EtcdFailureLeavesRowPending ==
    [][EtcdCallFails =>
          /\ table' = table
          /\ rQueue' # rQueue =>
                /\ rQueue' = Tail(rQueue)
                /\ rPc' = IF Tail(rQueue) = <<>> THEN "idle" ELSE "apply"
                /\ Pending(table', Head(rQueue).key) # {}
                /\ Pending(table', Head(rQueue).key)
                       \subseteq Range(GetPendingRecordsOf(table'))]_vars

\* C15 happens: etcd is unreachable, the worker is at a record of the cycle
\* without having made a call, and an older row is still pending: the
\* worker has left its record after the last failed retry.
C15_Witness ==
    /\ etcdDown
    /\ rPc = "apply"
    /\ calls = <<>>
    /\ \E r \in table : r.revision = InvalidRevision /\ r.ts < Head(rQueue).ts

\* C16: within one poll cycle the pending rows are applied to etcd in
\* ascending ts order: no call of the cycle is for a row older than the row
\* of a call made before it.
C16_AppliedInTsOrder ==
    \A i, j \in 1..Len(calls) :
        i < j => calls[i].record.ts <= calls[j].record.ts

\* C16 happens: one cycle has applied two rows written at different times.
C16_Witness ==
    /\ Len(calls) >= 2
    /\ calls[1].record.ts < calls[2].record.ts

\* A step in which the reverse worker's etcd call succeeds.
Applies == Len(calls') = Len(calls) + 1

\* C17: the worker deletes the key in etcd exactly when the record is a
\* tombstone, and otherwise puts the record's value, an empty value too.
C17_DeleteIffTombstone ==
    [][Applies =>
          LET rec == Head(rQueue)
          IN  IF rec.tombstone
              THEN /\ ~etcdKV'[rec.key].present
                   /\ etcdLog' = IF etcdKV[rec.key].present
                                 THEN Append(etcdLog, DeleteEvent(rec.key, etcdRev'))
                                 ELSE etcdLog
              ELSE /\ etcdKV'[rec.key].present
                   /\ etcdKV'[rec.key].value = rec.value
                   /\ etcdLog' = Append(etcdLog,
                                        PutEvent(rec.key, rec.value, etcdRev'))]_vars

\* C17 happens: a record with an empty value and no tombstone was applied
\* and etcd holds the key with the empty value.
C17_Witness ==
    \E i \in 1..Len(calls) :
        /\ ~calls[i].record.tombstone
        /\ calls[i].record.value = ""
        /\ etcdKV[calls[i].record.key].present
        /\ etcdKV[calls[i].record.key].value = ""

\* A step of the forward worker on the head event of its response.
ProcessesEvent ==
    /\ fPc = "event"
    /\ <<fAttempt, fBatch>>' # <<fAttempt, fBatch>>

C19_InitialSyncRoundTrip ==
    [][(sPc = "init" /\ sPc' = "running" /\ table = {}) =>
          \A k \in Keys :
              etcdKV[k].present =>
                  etcd_get(table', k)
                      = {Row(k, etcdKV[k].value, etcdKV[k].mod, now, FALSE)}]_vars

\* C19 happens: the first initial sync has read two keys written at
\* different revisions, etcd has not changed since, and the table holds
\* their rows.
C19_Witness ==
    /\ sPc = "running"
    /\ restarts = 0
    /\ syncedAt = etcdRev
    /\ \A k \in Keys : etcdKV[k].present /\ etcd_get(table, k) # {}

\* The (key, revision, value, tombstone) of a set of rows.
Proj(rows) ==
    {[key |-> r.key, revision |-> r.revision, value |-> r.value,
      tombstone |-> r.tombstone] : r \in rows}

\* C20: when every initial sync that has run read the same etcd state, the
\* table holds the (key, revision, value, tombstone) rows the first run
\* wrote, and one row for each.
C20_InitialSyncIdempotent ==
    (/\ Len(syncLog) >= 1
     /\ \A i \in 1..Len(syncLog) : Proj(syncLog[i]) = Proj(syncLog[1]))
        => /\ Proj(table) = Proj(syncLog[1])
           /\ Cardinality(table) = Cardinality(syncLog[1])

\* C20 happens: the initial sync has run twice, at different times, on the
\* same keys etcd holds.
C20_Witness ==
    /\ Len(syncLog) >= 2
    /\ syncLog[1] # {}
    /\ syncLog[2] # syncLog[1]
    /\ Proj(syncLog[2]) = Proj(syncLog[1])

\* C21: the baseline the forward path starts from after the initial sync is
\* the maximum of the highest ModRevision among the keys the sync read and
\* the header revision of its range response.
C21_BaselineIsHeaderRevision ==
    [][(fPc = "start" /\ fPc' = "recv" /\ restarts = 0) =>
          startRevision' = Max(GetLatestRevisionOf(syncLog[Len(syncLog)]),
                               syncedAt)]_vars

\* C22: when the bulk upsert of the initial sync fails, none of its rows is
\* left in the table and the initial sync is run again: the daemon stays in
\* its initial sync until the upsert succeeds.
C22_FailedInitialSyncRunsAgain ==
    [][(sPc = "init" /\ dbDown /\ ~etcdDown /\ GetAllKeys # {}) =>
          (table' = table /\ sPc' = "init")]_vars

\* C23: a pending write for a key that has a pending row succeeds and
\* merges into that row: in every state, for a key with a pending row,
\* etcd_put(k, v) and etcd_delete(k) called now succeed and leave the single
\* pending row of k with the new value, the new tombstone flag and the ts
\* of the call.
C23_PendingWriteMerges ==
    \A k \in Keys :
        Pending(table, k) # {} =>
            /\ \A v \in AppValues :
                   LET res == InsertRow(table,
                                  Row(k, v, InvalidRevision, now + 1, FALSE))
                   IN  /\ res.ok
                       /\ Pending(res.table, k)
                              = {Row(k, v, InvalidRevision, now + 1, FALSE)}
            /\ LET res == InsertRow(table,
                              Row(k, NULL, InvalidRevision, now + 1, TRUE))
               IN  /\ res.ok
                   /\ \E r \in Pending(res.table, k) :
                          /\ Pending(res.table, k) = {r}
                          /\ r.value \in {"", NULL}
                          /\ r.tombstone
                          /\ r.ts = now + 1

\* C24: in every reachable state every row with tombstone = true has an
\* empty (or NULL) value, whichever path wrote it.
C24_TombstoneHasNoValue ==
    \A r \in table : r.tombstone => r.value \in {"", NULL}

\* C24 happens: a pending tombstone was written, applied to etcd, stamped,
\* and the forward path has written the row of its DELETE event.
C24_Witness ==
    \E r \in table :
        /\ r.tombstone
        /\ r.revision > 0
        /\ r.revision \in Range(fwdLog)

\* C25: no step removes a row: the number of rows never decreases, and a
\* row (key, r) with r > 0 stays in the table with its key and revision.
C25_RowsAreNeverRemoved ==
    [][/\ Cardinality(table') >= Cardinality(table)
       /\ \A r \in table :
              r.revision > 0 =>
                  \E x \in table' : x.key = r.key /\ x.revision = r.revision]_vars

\* C25 happens: a key has two synced rows the forward path has written,
\* and a pending row besides.
C25_Witness ==
    \E r1, r2, r3 \in table :
        /\ r1.key = r2.key
        /\ r2.key = r3.key
        /\ r1.revision > 0
        /\ r2.revision > r1.revision
        /\ {r1.revision, r2.revision} \subseteq Range(fwdLog)
        /\ r3.revision = InvalidRevision

\* C26: once the context is cancelled while RetryWithBackoff runs, it
\* starts no further attempt, and what it returns is the cancellation
\* error.
C26_CancelStopsRetry ==
    [][cancelled =>
          /\ opCalls' = opCalls
          /\ (bPc # "done" /\ bPc' = "done") => bResult'.kind = "canceled"]_vars

\* The calls RetryWithBackoff makes when nothing stops it: up to the first
\* call that succeeds, or MaxRetries + 1.
CallsOfPlan ==
    IF \E i \in 1..(MaxRetries + 1) : ~opPlan[i]
    THEN CHOOSE i \in 1..(MaxRetries + 1) :
             ~opPlan[i] /\ \A j \in 1..(i - 1) : opPlan[j]
    ELSE MaxRetries + 1

\* What RetryWithBackoff returns when nothing stops it: nil at the first
\* success, the wrapped error of the last call when every call fails.
ResultOfPlan ==
    IF \E i \in 1..(MaxRetries + 1) : ~opPlan[i]
    THEN [kind |-> "nil", cause |-> 0]
    ELSE [kind |-> "wrapped", cause |-> MaxRetries + 1]

C30_StartSurvivesOperationFailures ==
    ~cancelled => sPc # "failed"

\* C29: a signal received at any point after signal handling is installed
\* leads to exit code 0: the process never ends with a non-zero code after
\* the context was cancelled.
C29_SignalExitsZero ==
    cancelled => mPc # "exit1"

\* Start has returned on the cancellation and every goroutine it launched
\* has returned (the watch goroutine is launched by the forward worker).
Terminated ==
    \/ /\ sPc = "failed"
       /\ fPc = "start"
       /\ rPc = "idle"
       /\ wPc = "off"
    \/ /\ sPc = "canceled"
       /\ fPc \in {"done", "failed"}
       /\ rPc = "done"
       /\ wPc \in {"done", "off"}

C31_LatestRevisionIsMaxPositive ==
    [][(fPc = "start" /\ fPc' = "recv") =>
          LET pos == {r.revision : r \in {x \in table : x.revision > 0}}
          IN  /\ pos = {} => latestRevision' = 0
              /\ pos # {} => /\ latestRevision' \in pos
                             /\ \A x \in pos : x <= latestRevision']_vars

\* C31 happens: the worker started from a positive revision it read from a
\* table that held a pending row besides.
C31_Witness ==
    /\ fPc = "recv"
    /\ fwdLog = <<>>
    /\ latestRevision > 0
    /\ \E r \in table : r.revision = InvalidRevision


WorkersNotStarted ==
    /\ fPc = "start"
    /\ wPc = "off"
    /\ rPc = "idle"
    /\ rQueue = <<>>
    /\ calls = <<>>
    /\ delivered = <<>>
    /\ fwdLog = <<>>

\* C35: Start runs the initial sync to completion before it starts either
\* worker: as long as no initial sync has returned nil neither worker has
\* made a step, and when the initial sync has failed Start has returned the
\* error and neither worker is ever started.
C35_InitialSyncBeforeWorkers ==
    /\ syncLog = <<>> => WorkersNotStarted
    /\ sPc \in {"init", "failed"} => WorkersNotStarted

\* C35 happens: the initial sync failed over a table that holds a pending
\* row the reverse worker would have applied.
C35_Witness ==
    /\ sPc = "failed"
    /\ syncLog = <<>>
    /\ WorkersNotStarted
    /\ \E r \in table : r.revision = InvalidRevision


(***************************************************************************)
(* The poll cycles of the reverse path.                                    *)
(***************************************************************************)
\* C39: poll cycles never overlap. While a cycle is under way the record in
\* process is the head of its list and nothing but that cycle moves on: the
\* list stays or loses its head, and the calls of the cycle stay or grow by
\* the call of the head record. A new list is read only by a worker that
\* has finished the list before.
C39_PollCyclesDoNotOverlap ==
    [][rPc # "idle" =>
          /\ rQueue # <<>>
          /\ rQueue' = rQueue \/ rQueue' = Tail(rQueue)
          /\ \/ calls' = calls
             \/ calls' = Append(calls, [call |-> EtcdCall(Head(rQueue)),
                                        record |-> Head(rQueue)])]_vars

\* C39 happens: a cycle has applied its first record and is held up at its
\* second by an etcd call that fails and is retried.
C39_Witness ==
    /\ rPc = "apply"
    /\ Len(calls) = 1
    /\ Len(rQueue) = 1
    /\ eAttempt > 0
    /\ calls[1].record.key # Head(rQueue).key


(***************************************************************************)
(* Progress of the reverse path.                                           *)
(***************************************************************************)
\* The etcd of the model has no revision left to give to a write.
RevisionsExhausted == etcdRev >= MaxRev

\* C36: with every etcd and database call succeeding, every pending row
\* eventually leaves the pending state: for no key does a pending row stay
\* for ever while etcd still accepts writes.
C36_PendingRowsDrain ==
    \A k \in Keys : []<>(Pending(table, k) = {} \/ RevisionsExhausted)


(***************************************************************************)
(* A daemon started again over the table of an earlier run.                *)
(***************************************************************************)
\* The watch has delivered every event up to the header revision and the
\* forward worker has processed what it was given: unless etcd is written
\* again the daemon changes the table no more.
ForwardQuiet ==
    /\ sPc = "running"
    /\ fPc = "recv"
    /\ wPc = "recv"
    /\ wNext = etcdRev + 1

\* C37: a daemon started again over the rows of an earlier run reports
\* every key that was deleted in etcd meanwhile as a tombstone, whatever
\* the revision of the delete: once the forward path has nothing left to
\* do, etcd_get shows a tombstone for every key with rows that etcd does
\* not hold.
C37_DeleteWhileDownBecomesTombstone ==
    (restarts > 0 /\ ForwardQuiet) =>
        \A k \in Keys :
            ~etcdKV[k].present => \A r \in etcd_get(table, k) : r.tombstone


(***************************************************************************)
(* The etcd DSN.                                                           *)
(***************************************************************************)
\* The host part of a DSN: what stands between the scheme and the first
\* slash.
HostPart(d) ==
    IF Contains(d.rest, "/") THEN SubSeq(d.rest, 1, Index(d.rest, "/") - 1)
    ELSE d.rest

\* C34: parseEtcdDSN returns an error for a DSN whose host part is empty,
\* and in the configuration of a DSN it accepts every endpoint carries a
\* port: an endpoint written without one has ":2379" appended.
C34_EmptyHostRejectedPortFilled ==
    (dPc # "new" /\ dsn.scheme = "etcd://") =>
        /\ HostPart(dsn) = <<>> => cfg.err # "none"
        /\ cfg.err = "none" =>
               LET hosts == Split(HostPart(dsn), ",")
               IN  /\ Len(cfg.endpoints) = Len(hosts)
                   /\ \A i \in 1..Len(hosts) :
                          cfg.endpoints[i] =
                              IF Contains(hosts[i], ":") THEN hosts[i]
                              ELSE hosts[i] \o DefaultPort

\* C33: the prefix of the initial sync is the path of the DSN, "/" when the
\* DSN has no path: every key the range read returns starts with it.
C33_ReadsOnlyUnderDsnPrefix ==
    dPc = "synced" =>
        /\ svcPrefix = GetPrefix(dsn)
        /\ \A k \in readKeys : HasPrefix(k, GetPrefix(dsn))


(***************************************************************************)
(* The error channel of Start.                                             *)
(***************************************************************************)
\* C38: a worker of Start never blocks on reporting its result: as long as
\* one of the two workers has still to return, its send on errChan goes
\* through, also after Start has returned on the cancellation or on the
\* error of the other worker.
C38_WorkersNeverBlockOnReport ==
    (Started /\ (fPc \in {"start", "recv", "event"}
                    \/ rPc \in {"idle", "apply", "stamp"})) => ErrChanHasRoom

\* C38 happens: Start has returned on the cancellation and both workers
\* have sent their results after it.
C38_Witness ==
    /\ sPc = "canceled"
    /\ fPc \in {"done", "failed"}
    /\ rPc = "done"
    /\ Len(errChan) = ErrChanCap

=============================================================================
